---- MODULE Spec2Model ----
(***************************************************************************)
(* Model of igor (include/igor/igor.hpp): named arguments for C++.         *)
(*                                                                         *)
(* A call site hands an argument pack ParseArgs to igor::parser.  The      *)
(* static queries (has, has_all, has_any, has_unnamed_arguments,           *)
(* has_other_than) are evaluated on the pack's types and need no parser    *)
(* object; the constructor filters the pack into m_nargs; operator()       *)
(* fetches references out of m_nargs.                                      *)
(*                                                                         *)
(* Types are modelled by values: a tagged_container<Tag, T> is a record    *)
(* with its tag_type and its reference member value, a reference is the    *)
(* object it designates together with its kind (lvalue or rvalue           *)
(* reference), any other argument type is a plain element.                 *)
(***************************************************************************)
EXTENDS Naturals, Sequences, FiniteSets

\* Longest argument pack handed to a parser.
MaxArgs == 3
\* Longest pack of named arguments handed to one query.
MaxTags == 2

\* The named arguments declared by the program.
Tags == {"X", "Y", "Z"}
\* The caller's objects that named arguments are bound to: object 1 is a
\* named variable, object 2 is a temporary.
Objects == {1, 2}

\* The global object that stands for a named argument that was not
\* provided; objects are told apart by their identity, and this one is
\* none of the caller's.
not_provided == 0

\* T && x of named_argument<Tag>::operator=: an lvalue reference to the
\* variable, an rvalue reference to the temporary.
References == {[obj |-> o, cat |-> IF o = 1 THEN "lvalue" ELSE "rvalue"] : o \in Objects}

\* named_argument<Tag>::operator=: the container refers to x and keeps
\* x's value category (T is T && after reference collapsing).
tagged_container(Tag, x) == [kind |-> "tagged_container", tag_type |-> Tag, value |-> x]

TaggedContainers == {tagged_container(t, x) : t \in Tags, x \in References}

\* An argument that is not a tagged_container.
Plain == [kind |-> "plain"]

Elements == TaggedContainers \cup {Plain}

RECURSIVE SeqsUpTo(_, _)
SeqsUpTo(S, n) ==
    IF n = 0 THEN {<<>>}
    ELSE LET shorter == SeqsUpTo(S, n - 1)
         IN  shorter \cup {Append(s, e) : s \in {t \in shorter : Len(t) = n - 1}, e \in S}

ArgLists == SeqsUpTo(Elements, MaxArgs)
TagLists == SeqsUpTo(Tags, MaxTags)

\* is_tagged_container with the tag left out of the match.
is_tagged_container_notag(Tag, T) == T.kind = "tagged_container"

\* is_tagged_container<Tag, T>::value
is_tagged_container(Tag, T) == T.kind = "tagged_container" /\ T.tag_type = Tag

\* is_tagged_container_any<T>::value
is_tagged_container_any(T) == T.kind = "tagged_container"

\* build_parser_tuple with the operands of tuple_cat swapped.
RECURSIVE build_parser_tuple_swapped(_)
build_parser_tuple_swapped(pargs) ==
    IF pargs = <<>> THEN <<>>
    ELSE IF is_tagged_container_any(Head(pargs))
         THEN build_parser_tuple_swapped(Tail(pargs)) \o <<Head(pargs)>>
         ELSE build_parser_tuple_swapped(Tail(pargs))

\* build_parser_tuple: the overload for a tagged_container keeps the
\* argument in front of the rest, the generic overload skips it.
RECURSIVE build_parser_tuple(_)
build_parser_tuple(pargs) ==
    IF pargs = <<>> THEN <<>>
    ELSE IF is_tagged_container_any(Head(pargs))
         THEN <<Head(pargs)>> \o build_parser_tuple(Tail(pargs))
         ELSE build_parser_tuple(Tail(pargs))

\* has<Args...>(narg): (... || is_tagged_container<Tag, Args>::value),
\* a left fold, false on the empty pack.
RECURSIVE has(_, _)
has(Args, Tag) ==
    IF Args = <<>> THEN FALSE
    ELSE has(SubSeq(Args, 1, Len(Args) - 1), Tag) \/ is_tagged_container(Tag, Args[Len(Args)])

\* has_all folding with || instead of &&.
RECURSIVE has_all_or(_, _)
has_all_or(Args, nargs) ==
    IF nargs = <<>> THEN FALSE
    ELSE has_all_or(Args, SubSeq(nargs, 1, Len(nargs) - 1)) \/ has(Args, nargs[Len(nargs)])

\* has_all<Args...>(nargs...): (... && has<Args...>(nargs)), true on the empty pack.
RECURSIVE has_all(_, _)
has_all(Args, nargs) ==
    IF nargs = <<>> THEN TRUE
    ELSE has_all(Args, SubSeq(nargs, 1, Len(nargs) - 1)) /\ has(Args, nargs[Len(nargs)])

\* has_any<Args...>(nargs...): (... || has<Args...>(nargs)), false on the empty pack.
RECURSIVE has_any(_, _)
has_any(Args, nargs) ==
    IF nargs = <<>> THEN FALSE
    ELSE has_any(Args, SubSeq(nargs, 1, Len(nargs) - 1)) \/ has(Args, nargs[Len(nargs)])

\* has_unnamed_arguments folding with && instead of ||.
RECURSIVE has_unnamed_arguments_and(_)
has_unnamed_arguments_and(Args) ==
    IF Args = <<>> THEN TRUE
    ELSE has_unnamed_arguments_and(SubSeq(Args, 1, Len(Args) - 1))
         /\ ~is_tagged_container_any(Args[Len(Args)])

\* has_unnamed_arguments<Args...>(): (... || !is_tagged_container_any<Args>::value)
RECURSIVE has_unnamed_arguments(_)
has_unnamed_arguments(Args) ==
    IF Args = <<>> THEN FALSE
    ELSE has_unnamed_arguments(SubSeq(Args, 1, Len(Args) - 1))
         \/ ~is_tagged_container_any(Args[Len(Args)])

\* First fold of has_other_than: how many of the nargs are in the pack.
RECURSIVE count_present(_, _)
count_present(Args, nargs) ==
    IF nargs = <<>> THEN 0
    ELSE count_present(Args, SubSeq(nargs, 1, Len(nargs) - 1))
         + (IF has(Args, nargs[Len(nargs)]) THEN 1 ELSE 0)

\* Second fold of has_other_than: the number of named arguments in the pack.
RECURSIVE count_named(_)
count_named(Args) ==
    IF Args = <<>> THEN 0
    ELSE count_named(SubSeq(Args, 1, Len(Args) - 1))
         + (IF is_tagged_container_any(Args[Len(Args)]) THEN 1 ELSE 0)

\* has_other_than comparing with sizeof...(Args) instead of the number of
\* named arguments.
has_other_than_sizeof(Args, nargs) == count_present(Args, nargs) < Len(Args)

\* has_other_than<Args...>(nargs...)
has_other_than(Args, nargs) == count_present(Args, nargs) < count_named(Args)

\* fetch_one_impl resolving to the last match instead of the first.
fetch_one_impl_last(t, I, Tag) ==
    LET matches == {i \in (I + 1)..Len(t) : t[i].tag_type = Tag}
    IN  IF matches = {} THEN [obj |-> not_provided, cat |-> "lvalue"]
        ELSE t[CHOOSE i \in matches : \A j \in matches : j <= i].value

\* fetch_one_impl without the comparison of the tags.
fetch_one_impl_anytag(t, I, Tag) ==
    IF I = Len(t) THEN [obj |-> not_provided, cat |-> "lvalue"]
    ELSE t[I + 1].value

\* fetch_one_impl giving up one element before the end of the tuple.
RECURSIVE fetch_one_impl_short(_, _, _)
fetch_one_impl_short(t, I, Tag) ==
    IF I + 1 >= Len(t) THEN [obj |-> not_provided, cat |-> "lvalue"]
    ELSE IF t[I + 1].tag_type = Tag
         THEN t[I + 1].value
         ELSE fetch_one_impl_short(t, I + 1, Tag)

\* parser::fetch_one_impl<I>(narg) on the tuple t: the sentinel past the
\* end, the value of element I when its tag_type is Tag (moved out when it
\* is an rvalue reference, which designates the same object as an rvalue),
\* otherwise the search goes on at I + 1.
RECURSIVE fetch_one_impl(_, _, _)
fetch_one_impl(t, I, Tag) ==
    IF I = Len(t) THEN [obj |-> not_provided, cat |-> "lvalue"]
    ELSE IF t[I + 1].tag_type = Tag
         THEN IF t[I + 1].value.cat = "rvalue"
              THEN [obj |-> t[I + 1].value.obj, cat |-> "rvalue"]
              ELSE t[I + 1].value
         ELSE fetch_one_impl(t, I + 1, Tag)

\* std::forward_as_tuple: one reference per argument, an lvalue reference
\* for an lvalue and an rvalue reference for an xvalue, to the same object.
forward_as_tuple(refs) == [i \in 1..Len(refs) |-> [obj |-> refs[i].obj, cat |-> refs[i].cat]]

\* operator() walking the stored tuple instead of the requested tags.
fetch_tuple_order(t, nargs) ==
    IF Len(nargs) = 0 THEN "void"
    ELSE IF Len(nargs) = 1 THEN fetch_one_impl(t, 0, nargs[1])
    ELSE LET Asked(e) == e.tag_type \in {nargs[i] : i \in 1..Len(nargs)}
             found == SelectSeq(t, Asked)
         IN  [i \in 1..Len(nargs) |->
                 IF i <= Len(found) THEN found[i].value
                 ELSE [obj |-> not_provided, cat |-> "lvalue"]]

\* parser::operator()(nargs...)
fetch(t, nargs) ==
    IF Len(nargs) = 0 THEN "void"
    ELSE IF Len(nargs) = 1 THEN fetch_one_impl(t, 0, nargs[1])
    ELSE forward_as_tuple([i \in 1..Len(nargs) |-> fetch_one_impl(t, 0, nargs[i])])

VARIABLES
    ParseArgs,  \* the argument pack of the call site
    m_nargs,    \* parser::m_nargs once the parser is constructed
    pc,         \* "start": no parser object yet; "built": parser constructed
    op,         \* the call in progress, "none" between calls
    qtags,      \* the named arguments given to the call in progress
    result      \* what the call in progress returns

vars == <<ParseArgs, m_nargs, pc, op, qtags, result>>

Init ==
    /\ ParseArgs \in ArgLists
    /\ m_nargs = <<>>
    /\ pc = "start"
    /\ op = "none"
    /\ qtags = <<>>
    /\ result = "none"

\* parser::parser(parse_args...)
Construct ==
    /\ pc = "start"
    /\ op = "none"
    /\ m_nargs' = build_parser_tuple(ParseArgs)
    /\ pc' = "built"
    /\ UNCHANGED <<ParseArgs, op, qtags, result>>

\* parser::has(narg), static
Has ==
    /\ op = "none"
    /\ \E Tag \in Tags :
          /\ qtags' = <<Tag>>
          /\ result' = has(ParseArgs, Tag)
    /\ op' = "has"
    /\ UNCHANGED <<ParseArgs, m_nargs, pc>>

\* parser::has_all(nargs...), static
HasAll ==
    /\ op = "none"
    /\ \E nargs \in TagLists :
          /\ qtags' = nargs
          /\ result' = has_all(ParseArgs, nargs)
    /\ op' = "has_all"
    /\ UNCHANGED <<ParseArgs, m_nargs, pc>>

\* parser::has_any(nargs...), static
HasAny ==
    /\ op = "none"
    /\ \E nargs \in TagLists :
          /\ qtags' = nargs
          /\ result' = has_any(ParseArgs, nargs)
    /\ op' = "has_any"
    /\ UNCHANGED <<ParseArgs, m_nargs, pc>>

\* parser::has_unnamed_arguments(), static
HasUnnamedArguments ==
    /\ op = "none"
    /\ qtags' = <<>>
    /\ result' = has_unnamed_arguments(ParseArgs)
    /\ op' = "has_unnamed_arguments"
    /\ UNCHANGED <<ParseArgs, m_nargs, pc>>

\* parser::has_other_than(nargs...), static
HasOtherThan ==
    /\ op = "none"
    /\ \E nargs \in TagLists :
          /\ qtags' = nargs
          /\ result' = has_other_than(ParseArgs, nargs)
    /\ op' = "has_other_than"
    /\ UNCHANGED <<ParseArgs, m_nargs, pc>>

\* parser::operator()(nargs...), on a constructed parser
Fetch ==
    /\ pc = "built"
    /\ op = "none"
    /\ \E nargs \in TagLists :
          /\ qtags' = nargs
          /\ result' = fetch(m_nargs, nargs)
    /\ op' = "fetch"
    /\ UNCHANGED <<ParseArgs, m_nargs, pc>>

\* The call in progress returns to the call site.
Return ==
    /\ op # "none"
    /\ op' = "none"
    /\ qtags' = <<>>
    /\ result' = "none"
    /\ UNCHANGED <<ParseArgs, m_nargs, pc>>

Next ==
    \/ Construct
    \/ Has
    \/ HasAll
    \/ HasAny
    \/ HasUnnamedArguments
    \/ HasOtherThan
    \/ Fetch
    \/ Return

Spec == Init /\ [][Next]_vars

(***************************************************************************)
(* Vocabulary of the properties.                                           *)
(***************************************************************************)

IsBinding(e) == e.kind = "tagged_container"

\* Positions of the Bindings of the list L.
BindingIdx(L) == {i \in 1..Len(L) : IsBinding(L[i])}

\* Positions of the Bindings of L tagged T.
TaggedIdx(L, T) == {i \in BindingIdx(L) : L[i].tag_type = T}

\* The tags given to a query, as a set.
TagSet(nargs) == {nargs[i] : i \in 1..Len(nargs)}

\* The reference to the global sentinel.
NotProvidedRef == [obj |-> not_provided, cat |-> "lvalue"]

\* Every reordering of the list L.
Reorderings(L) ==
    {[i \in 1..Len(L) |-> L[f[i]]] :
        f \in {g \in [1..Len(L) -> 1..Len(L)] : \A i, j \in 1..Len(L) : g[i] = g[j] => i = j}}

BindsTag(e, T) == IsBinding(e) /\ e.tag_type = T

Predicates == {"has", "has_all", "has_any", "has_unnamed_arguments", "has_other_than"}

(***************************************************************************)
(* C1: has_other_than(L, tags...) is true iff the number of Bindings in L  *)
(* is strictly greater than the number of Bindings in L whose tag is among *)
(* the given tags, for every L (duplicated tags included) and every        *)
(* sequence of query tags (repeated or empty included).                    *)
(***************************************************************************)
C1_HasOtherThanCountsBindings ==
    op = "has_other_than" =>
        (result <=> Cardinality(BindingIdx(ParseArgs))
                    > Cardinality({i \in BindingIdx(ParseArgs) : ParseArgs[i].tag_type \in TagSet(qtags)}))

(***************************************************************************)
(* C2: when the parser holds a Binding tagged T, fetch(T) returns exactly  *)
(* the reference held by the first Binding tagged T in construction order; *)
(* a later Binding of the same tag is never returned.                      *)
(***************************************************************************)
C2_FetchReturnsFirstBinding ==
    (op = "fetch" /\ Len(qtags) = 1 /\ TaggedIdx(ParseArgs, qtags[1]) # {}) =>
        LET first == CHOOSE i \in TaggedIdx(ParseArgs, qtags[1]) :
                        \A j \in TaggedIdx(ParseArgs, qtags[1]) : i <= j
        IN  result = ParseArgs[first].value

\* [X=1, X=2] was fetched for X and gave object 1.
C2_Witness ==
    /\ op = "fetch"
    /\ qtags = <<"X">>
    /\ Len(ParseArgs) = 2
    /\ BindsTag(ParseArgs[1], "X") /\ ParseArgs[1].value.obj = 1
    /\ BindsTag(ParseArgs[2], "X") /\ ParseArgs[2].value.obj = 2
    /\ result.obj = 1

(***************************************************************************)
(* C3: when the parser holds no Binding tagged T, fetch(T) returns the one *)
(* global not_provided sentinel whatever else the parser was built from,   *)
(* and a fetch yields nothing but a bound value or the sentinel.           *)
(***************************************************************************)
C3_FetchAbsentIsNotProvided ==
    (op = "fetch" /\ Len(qtags) = 1) =>
        /\ TaggedIdx(ParseArgs, qtags[1]) = {} => result = NotProvidedRef
        /\ \/ result = NotProvidedRef
           \/ \E i \in BindingIdx(ParseArgs) : result = ParseArgs[i].value

\* A parser holding a Binding of another tag and an unnamed argument was
\* fetched for an absent tag.
C3_Witness ==
    /\ op = "fetch"
    /\ qtags = <<"Z">>
    /\ TaggedIdx(ParseArgs, "Z") = {}
    /\ BindingIdx(ParseArgs) # {}
    /\ \E i \in 1..Len(ParseArgs) : ~IsBinding(ParseArgs[i])
    /\ result = NotProvidedRef

(***************************************************************************)
(* C4: has(L, T) is true iff some element of L is a Binding tagged T; the  *)
(* result is the same for every permutation of L and depends neither on    *)
(* the non-Binding elements nor on the Bindings of other tags.             *)
(***************************************************************************)
C4_HasIffSomeBinding ==
    op = "has" =>
        LET T == qtags[1]
            OnlyT(e) == BindsTag(e, T)
        IN  /\ result <=> (\E i \in 1..Len(ParseArgs) : BindsTag(ParseArgs[i], T))
            /\ \A P \in Reorderings(ParseArgs) : has(P, T) = result
            /\ has(SelectSeq(ParseArgs, OnlyT), T) = result

\* has(X) was true on a list with an unnamed argument, a Binding of another
\* tag and, last, a Binding of X.
C4_Witness ==
    /\ op = "has"
    /\ qtags = <<"X">>
    /\ Len(ParseArgs) = 3
    /\ ~IsBinding(ParseArgs[1])
    /\ BindsTag(ParseArgs[2], "Y")
    /\ BindsTag(ParseArgs[3], "X")
    /\ result = TRUE

(***************************************************************************)
(* C5: has_all(L, tags...) is the logical AND of has(L, t) over the given  *)
(* tags and has_any(L, tags...) is the logical OR of has(L, t) over them.  *)
(***************************************************************************)
C5_HasAllAndHasAny ==
    /\ op = "has_all" => (result <=> \A i \in 1..Len(qtags) : has(ParseArgs, qtags[i]))
    /\ op = "has_any" => (result <=> \E i \in 1..Len(qtags) : has(ParseArgs, qtags[i]))

\* has_all(X, Y) was false on a list that has X but not Y.
C5_Witness ==
    /\ op = "has_all"
    /\ qtags = <<"X", "Y">>
    /\ TaggedIdx(ParseArgs, "X") # {}
    /\ TaggedIdx(ParseArgs, "Y") = {}
    /\ result = FALSE

(***************************************************************************)
(* C6: a constructed parser stores exactly the subsequence of its argument *)
(* list made of the Bindings: every Binding kept (duplicated tags too),    *)
(* every other argument dropped, relative order preserved.                 *)
(***************************************************************************)
C6_ParserKeepsBindingsInOrder ==
    pc = "built" => m_nargs = SelectSeq(ParseArgs, IsBinding)

\* A parser was built from two Bindings of one tag to different objects
\* with an unnamed argument between them.
C6_Witness ==
    /\ pc = "built"
    /\ Len(ParseArgs) = 3
    /\ BindsTag(ParseArgs[1], "X")
    /\ ~IsBinding(ParseArgs[2])
    /\ BindsTag(ParseArgs[3], "X")
    /\ ParseArgs[1] # ParseArgs[3]
    /\ Len(m_nargs) = 2

(***************************************************************************)
(* C7: on a parser built from the empty argument list every presence       *)
(* predicate returns false for every choice of query tags and the fetch of *)
(* every tag returns the not_provided sentinel.                            *)
(***************************************************************************)
C7_EmptyListAllFalse ==
    ParseArgs = <<>> =>
        /\ op \in Predicates => result = FALSE
        /\ (op = "fetch" /\ Len(qtags) = 1) => result = NotProvidedRef
        /\ (op = "fetch" /\ Len(qtags) > 1) =>
               \A i \in 1..Len(qtags) : result[i] = NotProvidedRef

(***************************************************************************)
(* C7, amended: on a parser built from the empty argument list has,        *)
(* has_any, has_unnamed_arguments and has_other_than return false for      *)
(* every choice of query tags, has_all returns false for every non-empty   *)
(* choice of query tags and true for no query tag, and the fetch of every  *)
(* tag returns the not_provided sentinel.                                  *)
(***************************************************************************)
C7_EmptyListAmended ==
    ParseArgs = <<>> =>
        /\ op \in Predicates \ {"has_all"} => result = FALSE
        /\ op = "has_all" => (result <=> qtags = <<>>)
        /\ (op = "fetch" /\ Len(qtags) = 1) => result = NotProvidedRef
        /\ (op = "fetch" /\ Len(qtags) > 1) =>
               \A i \in 1..Len(qtags) : result[i] = NotProvidedRef

\* has_all(X, Y) was asked of the empty argument list.
C7_Witness ==
    /\ ParseArgs = <<>>
    /\ op = "has_all"
    /\ qtags = <<"X", "Y">>
    /\ result = FALSE

(***************************************************************************)
(* C8: fetch(t1, ..., tn) with n >= 2 returns a tuple of length n whose    *)
(* i-th component is what the single-tag fetch(ti) returns on the same     *)
(* parser, in the order of the requested tags.                             *)
(***************************************************************************)
C8_FetchManyIsFetchEach ==
    (op = "fetch" /\ Len(qtags) >= 2) =>
        /\ DOMAIN result = 1..Len(qtags)
        /\ \A i \in 1..Len(qtags) : result[i] = fetch(m_nargs, <<qtags[i]>>)

\* fetch(Y, X) on [X=1, Y=2] gave (2, 1): the order of the request, not of
\* the Bindings.
C8_Witness ==
    /\ op = "fetch"
    /\ qtags = <<"Y", "X">>
    /\ Len(ParseArgs) = 2
    /\ BindsTag(ParseArgs[1], "X") /\ ParseArgs[1].value.obj = 1
    /\ BindsTag(ParseArgs[2], "Y") /\ ParseArgs[2].value.obj = 2
    /\ result[1].obj = 2
    /\ result[2].obj = 1

DistinctBindingTags(L) ==
    \A i, j \in BindingIdx(L) : L[i].tag_type = L[j].tag_type => i = j

\* The query tags are pairwise distinct.
DistinctTags(nargs) ==
    \A i, j \in 1..Len(nargs) : nargs[i] = nargs[j] => i = j

(***************************************************************************)
(* C10: when no two Bindings of L share a tag and the query tags are       *)
(* pairwise distinct, has_other_than(L, tags...) is true iff L contains a  *)
(* Binding whose tag is not among the query tags; the non-Binding elements *)
(* of L do not affect the result.                                          *)
(***************************************************************************)
C10_HasOtherThanDistinct ==
    (op = "has_other_than" /\ DistinctBindingTags(ParseArgs) /\ DistinctTags(qtags)) =>
        /\ result <=> (\E i \in BindingIdx(ParseArgs) : ParseArgs[i].tag_type \notin TagSet(qtags))
        /\ has_other_than(SelectSeq(ParseArgs, IsBinding), qtags) = result

\* [X, Y, unnamed] asked has_other_than(X, Y): false.
C10_Witness ==
    /\ op = "has_other_than"
    /\ qtags = <<"X", "Y">>
    /\ Len(ParseArgs) = 3
    /\ BindsTag(ParseArgs[1], "X")
    /\ BindsTag(ParseArgs[2], "Y")
    /\ ~IsBinding(ParseArgs[3])
    /\ result = FALSE

====
